---- MODULE Spec2Model ----
(***************************************************************************)
(* Model of the Telegram -> Instagram republisher.                         *)
(*                                                                         *)
(*   ContentProcessor (src/content_processor.py): one asyncio task per     *)
(*   inbound message; the tasks share carousel_groups / carousel_captions  *)
(*   and are interleaved only at their await points.  Each action below    *)
(*   is the code one task runs between two consecutive awaits.             *)
(***************************************************************************)
EXTENDS Integers, Sequences, FiniteSets, TLC

(***************************************************************************)
(* Bounds of the model and constants of the program.                       *)
(***************************************************************************)
\* Number of inbound messages (one process_message task each).
NumMsgs == 3

\* config.py:47 sets 10.  The model keeps the comparison of the code and
\* scales the number so that a group can be filled and overfilled with
\* NumMsgs messages.
MAX_CAROUSEL_ITEMS == 2

\* config.py:41
CAPTION_MAX_LENGTH == 2200

Tasks == 1..NumMsgs

NoGroup == "none"
Groups == {"g1"}

EmptyCaption == <<>>
Captions == {EmptyCaption, <<"a">>, <<"b">>}

\* The inbound messages the model draws from: media_group_id, whether the
\* message carries a photo / a video, and its caption ("" when absent).
Messages ==
    { [group |-> "g1",    photo |-> TRUE,  video |-> FALSE, caption |-> <<"a">>],
      [group |-> "g1",    photo |-> TRUE,  video |-> FALSE, caption |-> <<"b">>],
      [group |-> "g1",    photo |-> TRUE,  video |-> FALSE, caption |-> EmptyCaption],
      [group |-> "g1",    photo |-> FALSE, video |-> TRUE,  caption |-> <<"a">>],
      [group |-> NoGroup, photo |-> TRUE,  video |-> FALSE, caption |-> <<"a">>],
      [group |-> NoGroup, photo |-> FALSE, video |-> TRUE,  caption |-> <<"a">>],
      [group |-> NoGroup, photo |-> TRUE,  video |-> FALSE, caption |-> EmptyCaption] }

NoMessage == [group |-> NoGroup, photo |-> FALSE, video |-> FALSE, caption |-> EmptyCaption]

VARIABLES
    pc,                 \* pc[t]: the await at which task t is suspended
    msg,                \* msg[t]: the message task t processes
    carousel_groups,    \* self.carousel_groups: group id -> list object
    carousel_captions,  \* self.carousel_captions: group id -> caption
    lists,              \* the list objects: list id -> sequence of items
    images,             \* publish_carousel local `images` of task t (a list id)
    caption,            \* publish_carousel local `caption` of task t
    sleepers,           \* tasks inside asyncio.sleep, in the order they went to sleep
    calls,              \* calls that reached the publisher
    steps,              \* steps[t]: the video steps task t has completed, in order
    first,              \* history: first[g] = first task that arrived with group g
    late,               \* history: groups with an arrival after the first one's wait ended
    provFail,           \* history: tasks that saw an external provider call fail
    creator,            \* history: creator[l] = task whose arrival created list l
    flushed,            \* history: group ids removed from the registry by a flush
    woken,              \* history: tasks whose quiet-period wait has elapsed
    \* --- caption truncation, applied to one translated caption
    cap_path,           \* the path that truncates: "photo", "carousel" or "reel"
    cap_in,             \* translated_caption as returned by the translator
    cap_out,            \* the caption handed to the publisher
    cap_pc,             \* "translated" -> "published"
    \* --- SubtitleService._create_smooth_bookoly_srt, one run
    transcript,         \* transcript.segments: sequence of [start, end, text], times in ms
    seg,                \* position of the `for segment in segments` loop (1-based)
    words,              \* words of the current segment
    den,                \* total_syllables of the current segment
    current_time,       \* current_time, as a multiple of 1/den ms
    wi,                 \* i, the index of the next word (0-based)
    subtitle_index,     \* subtitle_index
    srt_lines,          \* srt_lines
    cues,               \* history: the cues written, with their exact times
    srt_content,        \* the string returned
    srt_pc,             \* "segment" (loop head), "chunk" (while body) or "done"
    \* --- SubtitleService._format_srt_time, applied to two times
    seconds_a,          \* `seconds` of the first call, in 1/FmtDen ms
    seconds_b,          \* `seconds` of the second call, in 1/FmtDen ms
    formatted_a,        \* the string returned by the first call
    formatted_b,        \* the string returned by the second call
    fmt_pc,             \* "a" -> "b" -> "done"
    \* --- one call of add_subtitles_to_video or extract_frames_from_video
    op,                 \* the operation called
    tool_pc,            \* the next step of the call
    srt_given,          \* add_subtitles_to_video: srt_content was passed in
    files,              \* the temporary files and directories that exist
    locals_,            \* the path variables bound so far (`'x' in locals()`)
    duration,           \* extract_frames_from_video: duration, in ms
    num_frames,         \* extract_frames_from_video: num_frames
    timestamps,         \* timestamps, as numerators over TsDen(num_frames), in 0.1 ms
    fi,                 \* the index i of `for i, timestamp in enumerate(timestamps)`
    frames,             \* frames: the indices of the frames appended
    pending,            \* how the try block of extract_frames_from_video ended
    result,             \* "none", "returned" or "raised": what the caller gets
    created,            \* history: the temporary files and directories created
    tool_failed,        \* history: tool invocations that ended with a non-zero exit
    failures,           \* history: the steps that failed, as << kind, what >>
    \* --- one call of publish_photo, publish_carousel or publish_reel
    pub_op,             \* the operation called
    response_status,    \* response.status
    body,               \* the response body: what response.json() finds in it
    pub_result,         \* the value returned, when the call returned
    pub_outcome         \* "none", "returned" or "raised"

procvars == << pc, msg, carousel_groups, carousel_captions, lists, images, caption,
           sleepers, calls, steps, first, late, provFail, creator, flushed,
           woken >>

capvars == << cap_path, cap_in, cap_out, cap_pc >>

srtvars == << transcript, seg, words, den, current_time, wi, subtitle_index,
              srt_lines, cues, srt_content, srt_pc >>

fmtvars == << seconds_a, seconds_b, formatted_a, formatted_b, fmt_pc >>

\* the state of the helper computations checked on their own
toolvars == << op, tool_pc, srt_given, files, locals_, duration, num_frames,
               timestamps, fi, frames, pending, result, created, tool_failed,
               failures >>

pubvars == << pub_op, response_status, body, pub_result, pub_outcome >>

auxvars == << fmtvars, toolvars, pubvars >>

\* the state of the pure computations, which the message handlers leave alone
purevars == << capvars, srtvars, auxvars >>

vars == << procvars, capvars, srtvars, auxvars >>

(***************************************************************************)
(* Pure helpers of ContentProcessor.                                       *)
(***************************************************************************)
Dots == << ".", ".", "." >>

\* a variant that cuts at the limit before adding the marker
Truncate_CutAtLimit(s) ==
    IF Len(s) > CAPTION_MAX_LENGTH
    THEN SubSeq(s, 1, CAPTION_MAX_LENGTH) \o Dots
    ELSE s

\* translated_caption[:CAPTION_MAX_LENGTH-3] + "..." when too long
Truncate(s) ==
    IF Len(s) > CAPTION_MAX_LENGTH
    THEN SubSeq(s, 1, CAPTION_MAX_LENGTH - 3) \o Dots
    ELSE s

\* The caption translator is an external provider: the model fixes one
\* translation per input, different from the input.
Translate(c) == << "T" >> \o c

\* the classes of the exceptions the handlers raise: the errors of the
\* providers (Exception), a missing registry entry (KeyError), photo[-1] of
\* a message without photo (IndexError), a missing method (AttributeError)
ExceptionClasses == { "Exception", "KeyError", "IndexError", "AttributeError" }

\* lines 59-60 catching a narrower class than Exception
Caught_ProviderErrorsOnly(class) == class = "Exception"

\* lines 59-60: `except Exception` catches every one of them
Caught(class) == class \in ExceptionClasses

\* where a message is once its handler raised: the error is logged and
\* process_message returns (line 60), or the error leaves process_message
AfterRaise(class) == IF Caught(class) THEN "failed" ELSE "raised"

\* lines 50-55 with the caption tests before the media group test
Route_CaptionFirst(m) ==
    IF m.photo /\ m.caption # EmptyCaption THEN "photo"
    ELSE IF m.video /\ m.caption # EmptyCaption THEN "video"
    ELSE IF m.group # NoGroup THEN "carousel"
    ELSE "unsupported"

\* process_message: the branch a message takes
Route(m) ==
    IF m.group # NoGroup THEN "carousel"
    ELSE IF m.photo /\ m.caption # EmptyCaption THEN "photo"
    ELSE IF m.video /\ m.caption # EmptyCaption THEN "video"
    ELSE "unsupported"

EmptyDict == [x \in {} |-> 0]

\* del d[k]
Remove(f, k) == [x \in DOMAIN f \ {k} |-> f[x]]

\* `if media_group_id not in self.carousel_groups:` creates the two entries
GroupsAfterArrival(groups, g, l) ==
    IF g \notin DOMAIN groups THEN groups @@ (g :> l) ELSE groups

\* lines 166-175 with the clean-up done whether or not the publisher returned
AfterPublish_AlwaysCleanUp(registry, g, returned) == Remove(registry, g)

\* lines 166-175: the entry is deleted when the publisher returned and kept
\* when the translation or the publisher raised
AfterPublish(registry, g, returned) ==
    IF returned THEN Remove(registry, g) ELSE registry

\* line 111 storing a caption entry only for a message that has a caption
CaptionsAfterArrival_OnlyWithCaption(groups, captions, g, c) ==
    IF g \notin DOMAIN groups /\ c # EmptyCaption THEN (g :> c) @@ captions ELSE captions

\* a variant that stores the caption of every arrival
CaptionsAfterArrival_EveryArrival(groups, captions, g, c) ==
    (g :> c) @@ captions

CaptionsAfterArrival(groups, captions, g, c) ==
    IF g \notin DOMAIN groups THEN (g :> c) @@ captions ELSE captions

NextList == Len(lists) + 1

Active == { "c_download", "c_sleep", "c_translate", "c_publish",
            "p_download", "p_translate", "p_publish",
            "v_download", "v_convert", "v_dub", "v_fetch", "v_burn",
            "v_translate", "v_publish" }

InitProc ==
    /\ pc = [t \in Tasks |-> "new"]
    /\ msg = [t \in Tasks |-> NoMessage]
    /\ carousel_groups = EmptyDict
    /\ carousel_captions = EmptyDict
    /\ lists = << >>
    /\ images = [t \in Tasks |-> 0]
    /\ caption = [t \in Tasks |-> EmptyCaption]
    /\ sleepers = << >>
    /\ calls = {}
    /\ steps = [t \in Tasks |-> << >>]
    /\ first = [g \in Groups |-> 0]
    /\ late = {}
    /\ provFail = {}
    /\ creator = << >>
    /\ flushed = {}
    /\ woken = {}

InitCaptionIdle ==
    /\ cap_path = "none"
    /\ cap_in = << >>
    /\ cap_out = << >>
    /\ cap_pc = "idle"

InitSrtIdle ==
    /\ transcript = << >>
    /\ seg = 1
    /\ words = << >>
    /\ den = 1
    /\ current_time = 0
    /\ wi = 0
    /\ subtitle_index = 1
    /\ srt_lines = << >>
    /\ cues = << >>
    /\ srt_content = << >>
    /\ srt_pc = "idle"

InitFmtIdle ==
    /\ seconds_a = 0
    /\ seconds_b = 0
    /\ formatted_a = << >>
    /\ formatted_b = << >>
    /\ fmt_pc = "idle"

InitToolsIdle ==
    /\ op = "none"
    /\ tool_pc = "idle"
    /\ srt_given = FALSE
    /\ files = {}
    /\ locals_ = {}
    /\ duration = 0
    /\ num_frames = 0
    /\ timestamps = << >>
    /\ fi = 0
    /\ frames = << >>
    /\ pending = "none"
    /\ result = "none"
    /\ created = {}
    /\ tool_failed = {}
    /\ failures = {}

\* Python's None
None == "None"

InitPubIdle ==
    /\ pub_op = "none"
    /\ response_status = 0
    /\ body = None
    /\ pub_result = None
    /\ pub_outcome = "none"

InitAuxIdle == InitFmtIdle /\ InitToolsIdle /\ InitPubIdle

Init == InitProc /\ InitCaptionIdle /\ InitSrtIdle /\ InitAuxIdle

(***************************************************************************)
(* process_message (content_processor.py:46-60) and the code each branch   *)
(* runs up to its first await.  Messages are handled in arrival order.     *)
(***************************************************************************)
\* history: an arrival for g is late when the first arrival of g is no
\* longer downloading or waiting out its quiet period
IsLate(g) == first[g] # 0 /\ pc[first[g]] \notin {"c_download", "c_sleep"}

\* process_carousel_item, lines 104-117
ArriveCarousel(t, m) ==
    LET g == m.group
        isNew == g \notin DOMAIN carousel_groups
    IN  /\ carousel_groups' = GroupsAfterArrival(carousel_groups, g, NextList)
        /\ carousel_captions' =
               CaptionsAfterArrival(carousel_groups, carousel_captions, g, m.caption)
        /\ lists' = IF isNew THEN Append(lists, << >>) ELSE lists
        /\ creator' = IF isNew THEN Append(creator, t) ELSE creator
        /\ first' = IF first[g] = 0 THEN [first EXCEPT ![g] = t] ELSE first
        /\ late' = IF IsLate(g) THEN late \cup {g} ELSE late
           \* photo = message.photo[-1] raises on a message without photo
        /\ pc' = [pc EXCEPT ![t] = IF m.photo THEN "c_download"
                                 ELSE AfterRaise("IndexError")]

Arrive(t) ==
    /\ pc[t] = "new"
    /\ \A u \in Tasks : u < t => pc[u] # "new"
    /\ \E m \in Messages :
          /\ msg' = [msg EXCEPT ![t] = m]
          /\ CASE Route(m) = "carousel" -> ArriveCarousel(t, m)
               [] Route(m) = "photo" ->
                    /\ pc' = [pc EXCEPT ![t] = "p_download"]
                    /\ UNCHANGED << carousel_groups, carousel_captions, lists,
                                    creator, first, late >>
               [] Route(m) = "video" ->
                    /\ pc' = [pc EXCEPT ![t] = "v_download"]
                    /\ UNCHANGED << carousel_groups, carousel_captions, lists,
                                    creator, first, late >>
               [] OTHER ->
                    /\ pc' = [pc EXCEPT ![t] = "done"]
                    /\ UNCHANGED << carousel_groups, carousel_captions, lists,
                                    creator, first, late >>
    /\ UNCHANGED << images, caption, sleepers, calls, steps, provFail, flushed,
                    woken >>
    /\ UNCHANGED purevars

(***************************************************************************)
(* process_carousel_item / publish_carousel                                *)
(***************************************************************************)
\* self.carousel_groups[media_group_id].append(bytes(photo_data))
AppendItem(ls, l, item) == [ls EXCEPT ![l] = Append(@, item)]

\* lines 116-125: the download returns (or raises); the item is appended and
\* the task goes to sleep
CarouselDownloaded(t) ==
    /\ pc[t] = "c_download"
    /\ LET g == msg[t].group IN
       \E ok \in BOOLEAN :
          IF ~ok
          THEN /\ pc' = [pc EXCEPT ![t] = AfterRaise("Exception")]
               /\ provFail' = provFail \cup {t}
               /\ UNCHANGED << lists, sleepers >>
          ELSE IF g \notin DOMAIN carousel_groups
          THEN \* KeyError at line 120
               /\ pc' = [pc EXCEPT ![t] = AfterRaise("KeyError")]
               /\ UNCHANGED << lists, sleepers, provFail >>
          ELSE /\ lists' = AppendItem(lists, carousel_groups[g], t)
               /\ sleepers' = Append(sleepers, t)
               /\ pc' = [pc EXCEPT ![t] = "c_sleep"]
               /\ UNCHANGED provFail
    /\ UNCHANGED << msg, carousel_groups, carousel_captions, images, caption,
                    calls, steps, first, late, creator, flushed, woken >>
    /\ UNCHANGED purevars

\* the call that reaches uploadpost.publish_carousel: it reads the list
\* object and the caption when it is called
CarouselCall(t, l, c) ==
    [op |-> "carousel", by |-> t, list |-> l, items |-> lists[l],
     caption |-> c, video |-> "none"]

\* `len(self.carousel_groups[media_group_id]) <= MAX_CAROUSEL_ITEMS`
ShouldPublish(n) == n <= MAX_CAROUSEL_ITEMS

\* lines 127-150 (or -164 when the caption is empty): the sleep of the task
\* that went to sleep first ends; all sleeps have the same length
Wake(t) ==
    /\ pc[t] = "c_sleep"
    /\ sleepers # << >> /\ Head(sleepers) = t
    /\ sleepers' = Tail(sleepers)
    /\ woken' = woken \cup {t}
    /\ LET g == msg[t].group IN
          IF g \notin DOMAIN carousel_groups
          THEN \* KeyError at line 128
               /\ pc' = [pc EXCEPT ![t] = AfterRaise("KeyError")]
               /\ UNCHANGED << images, caption, calls >>
          ELSE IF ~ShouldPublish(Len(lists[carousel_groups[g]]))
          THEN /\ pc' = [pc EXCEPT ![t] = "done"]
               /\ UNCHANGED << images, caption, calls >>
          ELSE LET l == carousel_groups[g]
                   c == IF g \in DOMAIN carousel_captions
                        THEN carousel_captions[g] ELSE EmptyCaption
               IN  /\ images' = [images EXCEPT ![t] = l]
                   /\ caption' = [caption EXCEPT ![t] = c]
                   /\ IF c # EmptyCaption
                      THEN /\ pc' = [pc EXCEPT ![t] = "c_translate"]
                           /\ UNCHANGED calls
                      ELSE /\ pc' = [pc EXCEPT ![t] = "c_publish"]
                           /\ calls' = calls \cup
                                 {CarouselCall(t, l, Truncate(EmptyCaption))}
    /\ UNCHANGED << msg, carousel_groups, carousel_captions, lists, steps,
                    first, late, provFail, creator, flushed >>
    /\ UNCHANGED purevars

\* lines 150-164: the translation returns (or raises after its retries and
\* fallback); the caption is truncated and the publisher is called
CarouselTranslated(t) ==
    /\ pc[t] = "c_translate"
    /\ \E ok \in BOOLEAN :
          IF ok
          THEN /\ pc' = [pc EXCEPT ![t] = "c_publish"]
               /\ calls' = calls \cup
                     {CarouselCall(t, images[t], Truncate(Translate(caption[t])))}
               /\ UNCHANGED provFail
          ELSE /\ pc' = [pc EXCEPT ![t] = AfterRaise("Exception")]
               /\ provFail' = provFail \cup {t}
               /\ UNCHANGED calls
    /\ UNCHANGED << msg, carousel_groups, carousel_captions, lists, images,
                    caption, sleepers, steps, first, late, creator, flushed, woken >>
    /\ UNCHANGED purevars

\* lines 164-175: the publisher returns (or raises); on success the entries
\* are deleted
CarouselPublished(t) ==
    /\ pc[t] = "c_publish"
    /\ LET g == msg[t].group IN
       \E ok \in BOOLEAN :
          /\ carousel_groups' = AfterPublish(carousel_groups, g, ok)
          /\ carousel_captions' =
                 AfterPublish(carousel_captions, g, ok /\ g \in DOMAIN carousel_groups)
          /\ IF ~ok
             THEN /\ pc' = [pc EXCEPT ![t] = AfterRaise("Exception")]
                  /\ provFail' = provFail \cup {t}
                  /\ UNCHANGED flushed
             ELSE IF g \notin DOMAIN carousel_groups
             THEN \* KeyError at line 169
                  /\ pc' = [pc EXCEPT ![t] = AfterRaise("KeyError")]
                  /\ UNCHANGED << flushed, provFail >>
             ELSE /\ flushed' = flushed \cup {g}
                  /\ pc' = [pc EXCEPT ![t] = "done"]
                  /\ UNCHANGED provFail
    /\ UNCHANGED << msg, lists, images, caption, sleepers, calls, steps,
                    first, late, creator, woken >>
    /\ UNCHANGED purevars

(***************************************************************************)
(* process_photo_with_caption (lines 62-100)                               *)
(***************************************************************************)
PhotoCall(t, c) ==
    [op |-> "photo", by |-> t, list |-> 0, items |-> << t >>,
     caption |-> c, video |-> "none"]

\* the await the photo path reaches when the one at `step` returns
PhotoAfter(step, ok) ==
    IF ~ok THEN AfterRaise("Exception")
    ELSE CASE step = "p_download"  -> "p_translate"
           [] step = "p_translate" -> "p_publish"
           [] step = "p_publish"   -> "done"

PhotoStep(t) ==
    /\ pc[t] \in {"p_download", "p_translate", "p_publish"}
    /\ \E ok \in BOOLEAN :
          /\ pc' = [pc EXCEPT ![t] = PhotoAfter(pc[t], ok)]
          /\ provFail' = IF ok THEN provFail ELSE provFail \cup {t}
          /\ calls' = IF pc[t] = "p_translate" /\ PhotoAfter(pc[t], ok) = "p_publish"
                      THEN calls \cup {PhotoCall(t, Truncate(Translate(msg[t].caption)))}
                      ELSE calls
    /\ UNCHANGED << msg, carousel_groups, carousel_captions, lists, images,
                    caption, sleepers, steps, first, late, creator, flushed, woken >>
    /\ UNCHANGED purevars

(***************************************************************************)
(* process_video_with_caption (lines 177-253)                              *)
(***************************************************************************)
\* the methods class CloudConvertService defines (cloudconvert_service.py)
CloudConvertMethods == { "__init__", "convert_video_to_mp4" }

\* the steps of the video path, one await each, in program order
VideoSteps == << "v_download", "v_convert", "v_dub", "v_fetch", "v_burn",
                 "v_translate", "v_publish" >>

\* a variant that goes on to the next step whatever the step did
VideoAfter_SwallowErrors(step, ok) ==
    CASE step = "v_download"  -> "v_convert"
      [] step = "v_convert"   -> "v_dub"
      [] step = "v_dub"       -> "v_fetch"
      [] step = "v_fetch"     -> "v_burn"
      [] step = "v_burn"      -> "v_translate"
      [] step = "v_translate" -> "v_publish"
      [] step = "v_publish"   -> "done"

\* the await the video path reaches when the one at `step` returns: an
\* exception leaves through `except ... raise`; after the download the code
\* looks up self.cloudconvert.convert_video_to_mp4_url (line 192), which
\* raises AttributeError when the class has no such method
VideoAfter(step, ok) ==
    IF ~ok THEN AfterRaise("Exception")
    ELSE CASE step = "v_download" ->
                 IF "convert_video_to_mp4_url" \in CloudConvertMethods
                 THEN "v_convert" ELSE AfterRaise("AttributeError")
           [] step = "v_convert"   -> "v_dub"
           [] step = "v_dub"       -> "v_fetch"
           [] step = "v_fetch"     -> "v_burn"
           [] step = "v_burn"      -> "v_translate"
           [] step = "v_translate" -> "v_publish"
           [] step = "v_publish"   -> "done"

\* the value of the local final_video: bound by line 224 only
FinalVideo(done) ==
    IF \E i \in 1..Len(done) : done[i] = "v_burn" THEN "subtitled" ELSE "unbound"

ReelCall(t, v, c) ==
    [op |-> "reel", by |-> t, list |-> 0, items |-> << >>,
     caption |-> c, video |-> v]

VideoStep(t) ==
    /\ pc[t] \in { VideoSteps[i] : i \in 1..Len(VideoSteps) }
    /\ \E ok \in BOOLEAN :
          /\ pc' = [pc EXCEPT ![t] = VideoAfter(pc[t], ok)]
          /\ provFail' = IF ok THEN provFail ELSE provFail \cup {t}
          /\ steps' = IF ok THEN [steps EXCEPT ![t] = Append(@, pc[t])] ELSE steps
          /\ calls' = IF VideoAfter(pc[t], ok) = "v_publish"
                      THEN calls \cup {ReelCall(t, FinalVideo(steps'[t]),
                                                Truncate(Translate(msg[t].caption)))}
                      ELSE calls
    /\ UNCHANGED << msg, carousel_groups, carousel_captions, lists, images,
                    caption, sleepers, first, late, creator, flushed, woken >>
    /\ UNCHANGED purevars

Next ==
    \E t \in Tasks :
        \/ Arrive(t)
        \/ CarouselDownloaded(t)
        \/ Wake(t)
        \/ CarouselTranslated(t)
        \/ CarouselPublished(t)
        \/ PhotoStep(t)
        \/ VideoStep(t)

Spec == Init /\ [][Next]_vars

(***************************************************************************)
(* Carousel aggregator: properties                                         *)
(***************************************************************************)
Finished(t) == pc[t] \in {"done", "failed"}

\* the tasks whose message carries group id g
Arrivals(g) == { t \in Tasks : pc[t] # "new" /\ msg[t].group = g }

\* the calls that reached uploadpost.publish_carousel for group g
CarouselCalls(g) == { c \in calls : c.op = "carousel" /\ msg[c.by].group = g }

Items(c) == { c.items[i] : i \in 1..Len(c.items) }

\* every arrival of g carries a photo and none of its provider calls
\* (download, translation, publish) failed
AllSucceeded(g) ==
    \A t \in Arrivals(g) : msg[t].photo /\ t \notin provFail

\* the run of group g is over: every arrival of g has run to its end
Settled(g) ==
    /\ Arrivals(g) # {}
    /\ \A t \in Arrivals(g) : Finished(t)

\* C1: N <= MAX_CAROUSEL_ITEMS arrivals of one group, all within the quiet
\* period of the first: when they have all run to their end, exactly one
\* call reached the publisher for the group, it carries the N items, and
\* the group id is absent from the registry.
C1_OneFlushOfAllItems ==
    \A g \in Groups :
        ( /\ Settled(g)
          /\ g \notin late
          /\ AllSucceeded(g)
          /\ Cardinality(Arrivals(g)) <= MAX_CAROUSEL_ITEMS )
        => /\ Cardinality(CarouselCalls(g)) = 1
           /\ \A c \in CarouselCalls(g) : Len(c.items) = Cardinality(Arrivals(g))
           /\ g \notin DOMAIN carousel_groups

\* C2: no lost append: when a group of at most MAX_CAROUSEL_ITEMS arrivals
\* has run to its end with every download, translation and publish
\* successful, each item is in exactly one carousel handed to the publisher.
C2_NoLostAppend ==
    \A g \in Groups :
        ( /\ Settled(g)
          /\ AllSucceeded(g)
          /\ Cardinality(Arrivals(g)) <= MAX_CAROUSEL_ITEMS )
        => \A t \in Arrivals(g) :
              Cardinality({ c \in CarouselCalls(g) : t \in Items(c) }) = 1

\* C3: every list of items handed to the publisher by the aggregator holds
\* at most MAX_CAROUSEL_ITEMS items.
C3_FlushWithinMaximum ==
    \A c \in calls : c.op = "carousel" => Len(c.items) <= MAX_CAROUSEL_ITEMS

\* C4: flushed is terminal: a group id that was flushed and removed from
\* the registry never gets a new entry.
C4_FlushedIsTerminal ==
    [][ \A g \in flushed :
           g \notin DOMAIN carousel_groups => g \notin DOMAIN carousel_groups' ]_vars

\* C5: once the waits armed for a group have all elapsed and its handlers
\* have run to their end, the group is no longer in the registry.
C5_EntryRemovedAfterWaits ==
    \A g \in Groups :
        ( /\ Settled(g)
          /\ \E t \in Arrivals(g) : t \in woken )
        => g \notin DOMAIN carousel_groups

\* the caption the code hands to the publisher for stored caption c
PublishedCaption(c) ==
    Truncate(IF c # EmptyCaption THEN Translate(c) ELSE EmptyCaption)

\* C6: the stored caption of a group is the caption of the arrival that
\* created the entry, whatever later arrivals carry, and the caption of
\* every carousel handed to the publisher is the translation of the
\* caption of the arrival that created the published entry.
C6_CaptionOfCreatingArrival ==
    /\ \A g \in DOMAIN carousel_groups :
          /\ g \in DOMAIN carousel_captions
          /\ carousel_captions[g] = msg[creator[carousel_groups[g]]].caption
    /\ \A c \in calls :
          c.op = "carousel" =>
             c.caption = PublishedCaption(msg[creator[c.list]].caption)

\* a carousel reached the publisher that holds an item of a later arrival
\* whose caption differs from the caption of the creating arrival
C6_Witness ==
    \E c \in calls :
        /\ c.op = "carousel"
        /\ \E t \in Items(c) :
              /\ t # creator[c.list]
              /\ msg[t].caption # msg[creator[c.list]].caption
              /\ msg[t].caption # EmptyCaption
              /\ msg[creator[c.list]].caption # EmptyCaption

(***************************************************************************)
(* Video path: properties                                                  *)
(***************************************************************************)
ReelCalls(t) == { c \in calls : c.op = "reel" /\ c.by = t }

\* the steps that come before the publisher call, in program order
StepsBeforePublish == SubSeq(VideoSteps, 1, Len(VideoSteps) - 1)

\* C8: publish_reel is called only after download, conversion, dubbing,
\* download of the dubbed video, subtitle burning and caption translation
\* have all succeeded, in that order, and with the output of the subtitle
\* burning; a video item one of whose steps failed has no publisher call.
C8_NoPartialArtifact ==
    \A t \in Tasks :
        /\ \A c \in ReelCalls(t) :
              /\ Len(steps[t]) >= Len(StepsBeforePublish)
              /\ SubSeq(steps[t], 1, Len(StepsBeforePublish)) = StepsBeforePublish
              /\ c.video = "subtitled"
        /\ ( /\ Route(msg[t]) = "video"
             /\ pc[t] = "failed"
             /\ Len(steps[t]) < Len(StepsBeforePublish) )
           => ReelCalls(t) = {}

\* a video item was aborted and nothing was published for it
C8_Witness ==
    \E t \in Tasks :
        /\ pc[t] = "failed"
        /\ Route(msg[t]) = "video"
        /\ steps[t] = << "v_download" >>
        /\ ReelCalls(t) = {}

\* C9: a single video with a caption, all of whose provider calls succeed,
\* ends with every step of the video path done and exactly one
\* publish_reel call.
C9_VideoIsPublished ==
    \A t \in Tasks :
        ( /\ pc[t] # "new"
          /\ Route(msg[t]) = "video"
          /\ Finished(t)
          /\ t \notin provFail )
        => /\ steps[t] = VideoSteps
           /\ Cardinality(ReelCalls(t)) = 1

(***************************************************************************)
(* Caption truncation (content_processor.py:84-85, 155-156, 238-239): the  *)
(* same statement in the three paths, applied to one translated caption.   *)
(***************************************************************************)
\* how far the lengths of the captions tried lie around the limit
MaxDelta == 4
\* number of character patterns tried
MaxPattern == 3

Alphabet == << "a", "b", "." >>

\* the caption of length n whose i-th character is picked by pattern k
CaptionOf(n, k) == [i \in 1..n |-> Alphabet[((i * k) % 3) + 1]]

CaptionLengths ==
    (0..3) \cup ((CAPTION_MAX_LENGTH - MaxDelta)..(CAPTION_MAX_LENGTH + MaxDelta))

InitCaption ==
    /\ InitAuxIdle
    /\ InitProc
    /\ InitSrtIdle
    /\ cap_path \in {"photo", "carousel", "reel"}
    /\ cap_in \in { CaptionOf(n, k) : n \in CaptionLengths, k \in 1..MaxPattern }
    /\ cap_out = << >>
    /\ cap_pc = "translated"

\* `if len(translated_caption) > CAPTION_MAX_LENGTH: ...` and the publisher call
TruncateAndPublish ==
    /\ cap_pc = "translated"
    /\ cap_out' = Truncate(cap_in)
    /\ cap_pc' = "published"
    /\ UNCHANGED << cap_path, cap_in >>
    /\ UNCHANGED << procvars, srtvars, auxvars >>

NextCaption == TruncateAndPublish

SpecCaption == InitCaption /\ [][NextCaption]_vars

\* C7: a translated caption longer than CAPTION_MAX_LENGTH reaches the
\* publisher with length exactly CAPTION_MAX_LENGTH, its first
\* CAPTION_MAX_LENGTH - 3 characters kept and "..." after them; a caption
\* within the limit reaches the publisher unchanged.
C7_CaptionTruncation ==
    cap_pc = "published" =>
        IF Len(cap_in) > CAPTION_MAX_LENGTH
        THEN /\ Len(cap_out) = CAPTION_MAX_LENGTH
             /\ \A i \in 1..(CAPTION_MAX_LENGTH - 3) : cap_out[i] = cap_in[i]
             /\ \A i \in (CAPTION_MAX_LENGTH - 2)..CAPTION_MAX_LENGTH : cap_out[i] = "."
        ELSE cap_out = cap_in

\* a caption longer than the limit was truncated and handed over
C7_Witness ==
    /\ cap_pc = "published"
    /\ Len(cap_in) > CAPTION_MAX_LENGTH
    /\ cap_out # cap_in

(***************************************************************************)
(* SubtitleService._create_smooth_bookoly_srt (subtitle_service.py:90-174) *)
(* Times are exact: the inputs are whole milliseconds and every time of a  *)
(* segment is kept as a numerator over den = total_syllables (ms / den),   *)
(* which is the arithmetic of the code without the rounding of floats.     *)
(***************************************************************************)
\* number of segments of a transcript
MaxSegs == 2

\* the 0.05 s of line 147, in ms
OverlapMs == 50

Max(a, b) == IF a >= b THEN a ELSE b
Min(a, b) == IF a <= b THEN a ELSE b

Lowers == << "a", "b", "c", "d", "e", "f", "g", "h", "i", "j", "k", "l", "m", "n", "o", "p", "q", "r", "s", "t", "u", "v", "w", "x", "y", "z", "á", "é", "í", "ó", "ú" >>
Uppers == << "A", "B", "C", "D", "E", "F", "G", "H", "I", "J", "K", "L", "M", "N", "O", "P", "Q", "R", "S", "T", "U", "V", "W", "X", "Y", "Z", "Á", "É", "Í", "Ó", "Ú" >>

\* str.upper() and str.lower(), character by character
ToUpper(ch) ==
    IF \E i \in 1..Len(Lowers) : Lowers[i] = ch
    THEN Uppers[CHOOSE i \in 1..Len(Lowers) : Lowers[i] = ch] ELSE ch

ToLower(ch) ==
    IF \E i \in 1..Len(Uppers) : Uppers[i] = ch
    THEN Lowers[CHOOSE i \in 1..Len(Uppers) : Uppers[i] = ch] ELSE ch

Whitespace == { " " }

\* text.strip().split(): the maximal runs of non-whitespace characters
RECURSIVE SplitLoop(_, _, _, _)
SplitLoop(text, i, cur, acc) ==
    IF i > Len(text)
    THEN IF cur = << >> THEN acc ELSE Append(acc, cur)
    ELSE IF text[i] \in Whitespace
    THEN SplitLoop(text, i + 1, << >>, IF cur = << >> THEN acc ELSE Append(acc, cur))
    ELSE SplitLoop(text, i + 1, Append(cur, text[i]), acc)

Split(text) == SplitLoop(text, 1, << >>, << >>)

\* vowels = 'aeiouáéíóú'
Vowels == { "a", "e", "i", "o", "u", "á", "é", "í", "ó", "ú" }

\* the loop of _estimate_syllables (lines 186-190)
RECURSIVE SyllableLoop(_, _, _, _)
SyllableLoop(word, i, syllable_count, previous_was_vowel) ==
    IF i > Len(word) THEN syllable_count
    ELSE LET is_vowel == ToLower(word[i]) \in Vowels
         IN  SyllableLoop(word, i + 1,
                          IF is_vowel /\ ~previous_was_vowel
                          THEN syllable_count + 1 ELSE syllable_count,
                          is_vowel)

\* lines 186-190 counting every vowel, not every start of a run of vowels
EstimateSyllables_CountVowels(word) ==
    Max(1, Cardinality({ i \in 1..Len(word) : ToLower(word[i]) \in Vowels }))

\* _estimate_syllables (lines 176-193)
EstimateSyllables(word) == Max(1, SyllableLoop(word, 1, 0, FALSE))

\* sum(self._estimate_syllables(word) for word in ws)
RECURSIVE SumSyllables(_)
SumSyllables(ws) ==
    IF ws = << >> THEN 0 ELSE EstimateSyllables(Head(ws)) + SumSyllables(Tail(ws))

\* lines 132-139 without the two-word branch
ChunkSize_OneWord(ws, i) == Min(1, Len(ws) - i)

\* lines 132-139 without the test for a long word
ChunkSize_NoLongRule(ws, i) ==
    Min(IF i + 1 < Len(ws) THEN 2 ELSE 1, Len(ws) - i)

\* lines 132-139: 1 word for a long word or the last word, else 2
ChunkSize(ws, i) ==
    LET chunk_size == IF Len(ws[i + 1]) > 7 THEN 1
                      ELSE IF i + 1 < Len(ws) THEN 2
                      ELSE 1
    IN  Min(chunk_size, Len(ws) - i)

\* ' '.join(chunk).upper()
RECURSIVE JoinWords(_)
JoinWords(chunk) ==
    IF chunk = << >> THEN << >>
    ELSE IF Len(chunk) = 1 THEN Head(chunk)
    ELSE Head(chunk) \o << " " >> \o JoinWords(Tail(chunk))

ChunkText(chunk) == LET j == JoinWords(chunk) IN [k \in 1..Len(j) |-> ToUpper(j[k])]

\* line 147 without the max(start_time, ...)
ChunkStart_NoClamp(start_time, cur, d) == cur - OverlapMs * d

\* line 147 without the 50 ms step back
ChunkStart_NoOverlap(start_time, cur, d) == Max(start_time * d, cur)

\* chunk_start = max(start_time, current_time - 0.05), over d
ChunkStart(start_time, cur, d) == Max(start_time * d, cur - OverlapMs * d)

\* line 148 counting the duration from the start of the segment
ChunkEnd_FromSegmentStart(start_time, end_time, cur, chunk_syllables, d) ==
    Min(start_time * d + chunk_syllables * (end_time - start_time), end_time * d)

\* chunk_end = min(current_time + chunk_duration, end_time), over d, where
\* chunk_duration = chunk_syllables * segment_duration / total_syllables
ChunkEnd(start_time, end_time, cur, chunk_syllables, d) ==
    Min(cur + chunk_syllables * (end_time - start_time), end_time * d)

\* line 166 with the increment left out
NextIndex_Stuck(subtitle_index_) == subtitle_index_

\* subtitle_index += 1 (line 166)
NextIndex(subtitle_index_) == subtitle_index_ + 1

Digits == << "0", "1", "2", "3", "4", "5", "6", "7", "8", "9" >>

RECURSIVE DigitsOf(_)
DigitsOf(n) ==
    IF n < 10 THEN << Digits[n + 1] >>
    ELSE DigitsOf(n \div 10) \o << Digits[(n % 10) + 1] >>

\* f"{n:0wd}": the sign, when there is one, counts in the width
RECURSIVE Pad(_, _)
Pad(n, w) ==
    IF n < 0 THEN << "-" >> \o Pad(0 - n, w - 1)
    ELSE LET ds == DigitsOf(n)
         IN  IF Len(ds) >= w THEN ds ELSE [k \in 1..(w - Len(ds)) |-> "0"] \o ds

\* line 199 with the fraction of a second scaled by 100
FormatSrtTime_Hundredths(num, d) ==
    LET ms      == num \div d
        hours   == ms \div 3600000
        minutes == (ms % 3600000) \div 60000
        secs    == (ms % 60000) \div 1000
        millis  == (ms % 1000) \div 10
    IN  Pad(hours, 2) \o << ":" >> \o Pad(minutes, 2) \o << ":" >> \o Pad(secs, 2)
          \o << "," >> \o Pad(millis, 3)

\* line 199 with int() taken before the scaling: int(seconds % 1) * 1000
FormatSrtTime_IntBeforeScale(num, d) ==
    LET ms      == num \div d
        hours   == ms \div 3600000
        minutes == (ms % 3600000) \div 60000
        secs    == (ms % 60000) \div 1000
    IN  Pad(hours, 2) \o << ":" >> \o Pad(minutes, 2) \o << ":" >> \o Pad(secs, 2)
          \o << "," >> \o Pad(0, 3)

\* _format_srt_time (lines 195-201) of the time num/d ms, in exact
\* arithmetic.  The code works on floats and truncates with int(): for a
\* time that no float represents exactly it can write one millisecond less
\* than the value computed here (0.65 s is written 00:00:00,649).
FormatSrtTime(num, d) ==
    LET ms      == num \div d
        hours   == ms \div 3600000
        minutes == (ms % 3600000) \div 60000
        secs    == (ms % 60000) \div 1000
        millis  == ms % 1000
    IN  Pad(hours, 2) \o << ":" >> \o Pad(minutes, 2) \o << ":" >> \o Pad(secs, 2)
          \o << "," >> \o Pad(millis, 3)

Arrow == << " ", "-", "-", ">", " " >>

\* '\n'.join(srt_lines)
RECURSIVE JoinLines(_)
JoinLines(ls) ==
    IF ls = << >> THEN << >>
    ELSE IF Len(ls) = 1 THEN Head(ls)
    ELSE Head(ls) \o << "\n" >> \o JoinLines(Tail(ls))

\* the transcripts tried: segment times on a grid of whole ms, ordered and
\* non-overlapping, end >= start
SegTimes == { 0, 100, 2500 }

Texts ==
    { << "s", "í" >>,
      << " ", "h", "o", "l", "a", " ", "m", "u", "n", "d", "o" >>,
      << >>,
      << "e", "l", "e", "f", "a", "n", "t", "e", " ", "a", "z", "u", "l" >>,
      << "n", "o", " ", "e", "l", "e", "f", "a", "n", "t", "e", " ", "s", "í" >>,
      << "e", "l", "e", "f", "a", "n", "t", "e", " ", "a", "z", "u", "l", " ", "s", "í", " ", "n", "o", " ", "h", "o", "l", "a" >>,
      << "y", " ", "p", "f", "f", "f", " ", "h", "o", "l", "a", " ", " ", "m", "u", "n", "d", "o", " ", "G", "r", "a", "c", "i", "a", "s", " " >> }

Segments ==
    { sg \in [start : SegTimes, end : SegTimes, text : Texts] : sg.start <= sg.end }

Ordered(tr) == \A k \in 1..(Len(tr) - 1) : tr[k].end <= tr[k + 1].start

Transcripts ==
    UNION { { tr \in [1..n -> Segments] : Ordered(tr) } : n \in 0..MaxSegs }

InitSrt ==
    /\ InitAuxIdle
    /\ InitProc
    /\ InitCaptionIdle
    /\ transcript \in Transcripts
    /\ seg = 1
    /\ words = << >>
    /\ den = 1
    /\ current_time = 0
    /\ wi = 0
    /\ subtitle_index = 1
    /\ srt_lines = << >>
    /\ cues = << >>
    /\ srt_content = << >>
    /\ srt_pc = "segment"

\* lines 106-127 and 170: the head of `for segment in segments`
SrtSegment ==
    /\ srt_pc = "segment"
    /\ IF seg > Len(transcript)
       THEN /\ srt_content' = JoinLines(srt_lines)
            /\ srt_pc' = "done"
            /\ UNCHANGED << seg, words, den, current_time, wi >>
       ELSE LET ws == Split(transcript[seg].text)
            IN  IF ws = << >>
                THEN \* `if not words: continue`
                     /\ seg' = seg + 1
                     /\ UNCHANGED << words, den, current_time, wi, srt_content, srt_pc >>
                ELSE /\ words' = ws
                     /\ den' = SumSyllables(ws)
                     /\ current_time' = transcript[seg].start * SumSyllables(ws)
                     /\ wi' = 0
                     /\ srt_pc' = "chunk"
                     /\ UNCHANGED << seg, srt_content >>
    /\ UNCHANGED << transcript, subtitle_index, srt_lines, cues >>
    /\ UNCHANGED << procvars, capvars, auxvars >>

\* lines 129-168: one pass of `while i < len(words)`
SrtChunk ==
    /\ srt_pc = "chunk"
    /\ LET sg          == transcript[seg]
           chunk_size  == ChunkSize(words, wi)
           chunk       == SubSeq(words, wi + 1, wi + chunk_size)
           chunk_start == ChunkStart(sg.start, current_time, den)
           chunk_end   == ChunkEnd(sg.start, sg.end, current_time, SumSyllables(chunk), den)
       IN  /\ srt_lines' = srt_lines \o
                 << DigitsOf(subtitle_index),
                    FormatSrtTime(chunk_start, den) \o Arrow \o FormatSrtTime(chunk_end, den),
                    ChunkText(chunk),
                    << >> >>
           /\ cues' = Append(cues, [index |-> subtitle_index, seg |-> seg,
                                    start |-> chunk_start, end |-> chunk_end,
                                    den |-> den, text |-> ChunkText(chunk)])
           /\ subtitle_index' = NextIndex(subtitle_index)
           /\ current_time' = chunk_end
           /\ wi' = wi + chunk_size
           /\ IF wi + chunk_size < Len(words)
              THEN UNCHANGED << seg, srt_pc >>
              ELSE seg' = seg + 1 /\ srt_pc' = "segment"
    /\ UNCHANGED << transcript, words, den, srt_content >>
    /\ UNCHANGED << procvars, capvars, auxvars >>

NextSrt == SrtSegment \/ SrtChunk

SpecSrt == InitSrt /\ [][NextSrt]_vars

\* C10: every cue written by the planner lasts at least 0.5 s:
\* end - start >= 500 ms.
C10_MinimumCueDuration ==
    \A k \in 1..Len(cues) : cues[k].end - cues[k].start >= 500 * cues[k].den

\* C11: the cue indices are exactly 1..K in output order, and so are the
\* index lines written; a segment with zero words adds no cue and uses no
\* index.
C11_ContiguousIndices ==
    /\ \A k \in 1..Len(cues) : cues[k].index = k
    /\ Len(srt_lines) = 4 * Len(cues)
    /\ \A k \in 1..Len(cues) : srt_lines[4 * (k - 1) + 1] = DigitsOf(k)
    /\ subtitle_index = Len(cues) + 1
    /\ \A k \in 1..Len(cues) : Split(transcript[cues[k].seg].text) # << >>

\* a finished plan whose first segment has no words and whose second
\* segment gave several cues
C11_Witness ==
    /\ srt_pc = "done"
    /\ Len(transcript) = 2
    /\ Split(transcript[1].text) = << >>
    /\ Len(cues) >= 2
    /\ cues[1].seg = 2

\* the cue a starts no later than the cue b (times over different
\* denominators are compared by cross-multiplication)
StartsNoLater(a, b) == a.start * b.den <= b.start * a.den

\* C12: for ordered, non-overlapping segments with end >= start the start
\* times of the cues are non-decreasing in output order, inside a segment
\* (the 50 ms backward offset notwithstanding) and from one segment to the
\* next.
C12_StartsNonDecreasing ==
    \A k \in 1..(Len(cues) - 1) : StartsNoLater(cues[k], cues[k + 1])

\* a finished plan with two worded segments, the first of several cues,
\* one of them started 50 ms before the end of the cue before it
C12_Witness ==
    /\ srt_pc = "done"
    /\ \E k \in 1..(Len(cues) - 2) :
          /\ cues[k].seg = 1 /\ cues[k + 1].seg = 1 /\ cues[k + 2].seg = 2
          /\ cues[k + 1].start = cues[k].end - OverlapMs * cues[k].den
          /\ cues[k + 1].start > cues[k].start

\* C13: every cue written has start < end, for every segment with
\* end >= start (end = start included) and every split into words.
C13_StartBeforeEnd ==
    \A k \in 1..Len(cues) : cues[k].start < cues[k].end

\* the cue lies inside the segment it was cut from
InsideSegment(cue) ==
    /\ cue.start >= transcript[cue.seg].start * cue.den
    /\ cue.end <= transcript[cue.seg].end * cue.den

\* C14: every cue stays inside its source segment: its start is not before
\* the segment's start and its end is not after the segment's end.
C14_CueInsideSegment ==
    \A k \in 1..Len(cues) : InsideSegment(cues[k])

\* a segment cut into several cues: the first would have started 50 ms
\* before the segment and was held at its start, a later one starts 50 ms
\* before the end of the cue before it, the last ends with the segment
C14_Witness ==
    /\ srt_pc = "done"
    /\ \E k \in 1..(Len(cues) - 1) :
          /\ cues[k].seg = cues[k + 1].seg
          /\ cues[k].start = transcript[cues[k].seg].start * cues[k].den
          /\ cues[k + 1].start = cues[k].end - OverlapMs * cues[k].den
          /\ cues[k + 1].end = transcript[cues[k].seg].end * cues[k].den

\* the transcript is one segment of exactly two words, the first of at most
\* 7 characters
TwoShortWords ==
    /\ Len(transcript) = 1
    /\ Len(Split(transcript[1].text)) = 2
    /\ Len(Split(transcript[1].text)[1]) <= 7

\* the two words joined by one space, upper-cased
UpperPair(ws) ==
    LET j == ws[1] \o << " " >> \o ws[2] IN [k \in 1..Len(j) |-> ToUpper(j[k])]

SplitLines(text) ==
    LET nl     == { i \in 1..Len(text) : text[i] = "\n" }
        pos(j) == IF j = 0 THEN 0
                  ELSE IF j > Cardinality(nl) THEN Len(text) + 1
                  ELSE CHOOSE i \in nl : Cardinality({ k \in nl : k <= i }) = j
    IN  [j \in 1..(Cardinality(nl) + 1) |-> SubSeq(text, pos(j - 1) + 1, pos(j) - 1)]

\* the blocks of a list of lines: the maximal runs of non-empty lines
RECURSIVE BlocksLoop(_, _, _, _)
BlocksLoop(ls, i, cur, acc) ==
    IF i > Len(ls)
    THEN IF cur = << >> THEN acc ELSE Append(acc, cur)
    ELSE IF ls[i] = << >>
    THEN BlocksLoop(ls, i + 1, << >>, IF cur = << >> THEN acc ELSE Append(acc, cur))
    ELSE BlocksLoop(ls, i + 1, Append(cur, ls[i]), acc)

Blocks(text) == BlocksLoop(SplitLines(text), 1, << >>, << >>)

IsDigit(ch) == \E i \in 1..Len(Digits) : Digits[i] = ch

DigitValue(ch) == (CHOOSE i \in 1..Len(Digits) : Digits[i] = ch) - 1

\* the number written by a run of digits
RECURSIVE ParseInt(_)
ParseInt(ds) ==
    IF ds = << >> THEN 0
    ELSE 10 * ParseInt(SubSeq(ds, 1, Len(ds) - 1)) + DigitValue(ds[Len(ds)])

AllDigits(ds) == ds # << >> /\ \A k \in 1..Len(ds) : IsDigit(ds[k])

\* a time has the shape HH:MM:SS,mmm: two or more hour digits, two minute
\* digits below 60, two second digits below 60, three millisecond digits
IsSrtTime(str) ==
    LET n == Len(str)
    IN  /\ n >= 12
        /\ AllDigits(SubSeq(str, 1, n - 10))
        /\ str[n - 9] = ":"
        /\ AllDigits(SubSeq(str, n - 8, n - 7))
        /\ ParseInt(SubSeq(str, n - 8, n - 7)) < 60
        /\ str[n - 6] = ":"
        /\ AllDigits(SubSeq(str, n - 5, n - 4))
        /\ ParseInt(SubSeq(str, n - 5, n - 4)) < 60
        /\ str[n - 3] = ","
        /\ AllDigits(SubSeq(str, n - 2, n))

\* the whole milliseconds a written time stands for
ParseSrtTime(str) ==
    LET n == Len(str)
    IN  ParseInt(SubSeq(str, 1, n - 10)) * 3600000
          + ParseInt(SubSeq(str, n - 8, n - 7)) * 60000
          + ParseInt(SubSeq(str, n - 5, n - 4)) * 1000
          + ParseInt(SubSeq(str, n - 2, n))

\* where ' --> ' begins in a time line (0 when it is not there)
ArrowAt(line) ==
    LET at == { j \in 1..(Len(line) - 4) : SubSeq(line, j, j + 4) = Arrow }
    IN  IF at = {} THEN 0 ELSE CHOOSE j \in at : \A j2 \in at : j <= j2

\* a block is an index line, a 'start --> end' line and one text line
WellFormedBlock(b) ==
    /\ Len(b) = 3
    /\ AllDigits(b[1])
    /\ ArrowAt(b[2]) > 1
    /\ IsSrtTime(SubSeq(b[2], 1, ArrowAt(b[2]) - 1))
    /\ IsSrtTime(SubSeq(b[2], ArrowAt(b[2]) + 5, Len(b[2])))

ParseBlock(b) ==
    [ index |-> ParseInt(b[1]),
      start |-> ParseSrtTime(SubSeq(b[2], 1, ArrowAt(b[2]) - 1)),
      end   |-> ParseSrtTime(SubSeq(b[2], ArrowAt(b[2]) + 5, Len(b[2]))),
      text  |-> b[3] ]

\* the written millisecond ms is the time num/d up to millisecond rounding
WithinOneMs(ms, num, d) == ms * d <= num /\ num < (ms + 1) * d

IsUpper(text) == \A k \in 1..Len(text) : ToUpper(text[k]) = text[k]

\* C16: the text written for N cues is exactly N blocks, each an index
\* line, a 'start --> end' line and an upper-cased text line, consecutive
\* blocks separated by one blank line; read back, the blocks give the N
\* (start, end, text) triples again, the times up to millisecond rounding.
C16_RoundTrip ==
    srt_pc = "done" =>
        LET ls == SplitLines(srt_content)
            bs == Blocks(srt_content)
            N  == Len(cues)
        IN  /\ Len(bs) = N
            /\ N > 0 => Len(ls) = 4 * N
            /\ \A k \in 1..N :
                  /\ bs[k] = SubSeq(ls, 4 * k - 3, 4 * k - 1)
                  /\ ls[4 * k] = << >>
                  /\ WellFormedBlock(bs[k])
                  /\ IsUpper(bs[k][3])
                  /\ ParseBlock(bs[k]).index = k
                  /\ ParseBlock(bs[k]).text = cues[k].text
                  /\ WithinOneMs(ParseBlock(bs[k]).start, cues[k].start, cues[k].den)
                  /\ WithinOneMs(ParseBlock(bs[k]).end, cues[k].end, cues[k].den)

\* a finished text of several blocks, one of whose times is not a whole
\* number of milliseconds
C16_Witness ==
    /\ srt_pc = "done"
    /\ Len(cues) >= 3
    /\ Len(Blocks(srt_content)) = Len(cues)
    /\ \E k \in 1..Len(cues) : cues[k].end % cues[k].den # 0

(***************************************************************************)
(* SubtitleService._format_srt_time (subtitle_service.py:195-201) on its   *)
(* own: two non-negative times, given in 1/FmtDen ms, are formatted.       *)
(***************************************************************************)
\* the times tried are multiples of 1/FmtDen ms
FmtDen == 4

\* each time tried is a base time plus 0..MaxFmtOffset steps of 1/FmtDen ms
MaxFmtOffset == 8

\* base times in ms: 0, the last millisecond of a second, of a minute, of
\* an hour and of the 100th hour
FmtBases == { 0, 999, 59999, 3599999, 359999999 }

FmtTimes == { b * FmtDen + o : b \in FmtBases, o \in 0..MaxFmtOffset }

InitFmt ==
    /\ InitProc
    /\ InitCaptionIdle
    /\ InitSrtIdle
    /\ InitToolsIdle
    /\ InitPubIdle
    /\ seconds_a \in FmtTimes
    /\ seconds_b \in FmtTimes
    /\ formatted_a = << >>
    /\ formatted_b = << >>
    /\ fmt_pc = "a"

FormatFirst ==
    /\ fmt_pc = "a"
    /\ formatted_a' = FormatSrtTime(seconds_a, FmtDen)
    /\ fmt_pc' = "b"
    /\ UNCHANGED << seconds_a, seconds_b, formatted_b >>
    /\ UNCHANGED << procvars, capvars, srtvars, toolvars, pubvars >>

FormatSecond ==
    /\ fmt_pc = "b"
    /\ formatted_b' = FormatSrtTime(seconds_b, FmtDen)
    /\ fmt_pc' = "done"
    /\ UNCHANGED << seconds_a, seconds_b, formatted_a >>
    /\ UNCHANGED << procvars, capvars, srtvars, toolvars, pubvars >>

NextFmt == FormatFirst \/ FormatSecond

SpecFmt == InitFmt /\ [][NextFmt]_vars

\* C17: every non-negative time is written as HH:MM:SS,mmm (two or more
\* hour digits, minutes and seconds below 60, three millisecond digits)
\* standing for that time, and two times that differ by at least 1 ms are
\* written as different strings.
C17_FormatDistinguishesMilliseconds ==
    fmt_pc = "done" =>
        /\ IsSrtTime(formatted_a)
        /\ IsSrtTime(formatted_b)
        /\ WithinOneMs(ParseSrtTime(formatted_a), seconds_a, FmtDen)
        /\ WithinOneMs(ParseSrtTime(formatted_b), seconds_b, FmtDen)
        /\ (seconds_b - seconds_a >= FmtDen \/ seconds_a - seconds_b >= FmtDen)
               => formatted_a # formatted_b

\* two times exactly 1 ms apart, neither a whole millisecond, the second
\* in the 101st hour (three hour digits), were written differently
C17_Witness ==
    /\ fmt_pc = "done"
    /\ seconds_b - seconds_a = FmtDen
    /\ seconds_a % FmtDen # 0
    /\ seconds_b >= 360000000 * FmtDen
    /\ Len(formatted_b) = 13
    /\ formatted_a # formatted_b

(***************************************************************************)
(* The compositor calls: SubtitleService.add_subtitles_to_video with the   *)
(* generate_srt_from_audio it triggers (subtitle_service.py:29-88,         *)
(* 203-303) and UploadPostService.extract_frames_from_video                *)
(* (uploadpost_service.py:25-110).  One call is followed from its first    *)
(* line to its return or raise.  The steps that can fail are the external  *)
(* tool, the transcription provider, the reading of a file and the         *)
(* deletion of a file; the creation and writing of files succeed.          *)
(***************************************************************************)
\* num_frames ranges over 1..MaxFrames
MaxFrames == 3

\* the 1.0 of lines 57-58 and 60, in 0.1 ms
OneSecond == 10000

\* duration = 10.0 (line 52), in ms
DefaultDuration == 10000

\* the durations the probe reports, in ms
Durations == { 500, 2000, 2500, 5000, 10000, 30000 }

\* start = max(1.0, duration * 0.1), in 0.1 ms
FrameStart(d) == Max(OneSecond, d)

\* end = min(duration - 1.0, duration * 0.9); if end <= start: end = start + 1
FrameEnd(d) ==
    LET end == Min(10 * d - OneSecond, 9 * d)
    IN  IF end <= FrameStart(d) THEN FrameStart(d) + OneSecond ELSE end

\* the denominator of the timestamps: num_frames - 1 (line 61)
TsDen(n) == IF n = 1 THEN 1 ELSE n - 1

\* lines 54-62, in 0.1 ms over TsDen(n)
Timestamps(d, n) ==
    IF n = 1 THEN << 5 * d >>
    ELSE [i \in 1..n |-> FrameStart(d) * (n - 1) + (i - 1) * (FrameEnd(d) - FrameStart(d))]

\* the paths of a list that are removed when the k first removals succeed
Removed(paths, k) == { paths[j] : j \in 1..k }

\* the removal that raised, when only the k first removals succeed
FailedRemoval(paths, k) ==
    IF k < Len(paths) THEN { << "remove", paths[k + 1] >> } ELSE {}

\* the paths of `paths` that the guarded removals of an error path try
Guarded(paths, bound) ==
    SelectSeq(paths, LAMBDA x : x \in bound /\ x \in files)

InitTools ==
    /\ InitProc
    /\ InitCaptionIdle
    /\ InitSrtIdle
    /\ InitFmtIdle
    /\ InitPubIdle
    /\ \/ op = "add_subtitles" /\ srt_given \in BOOLEAN /\ num_frames = 0
       \/ op = "extract_frames" /\ srt_given = FALSE /\ num_frames \in 1..MaxFrames
    /\ tool_pc = "start"
    /\ files = {}
    /\ locals_ = {}
    /\ duration = 0
    /\ timestamps = << >>
    /\ fi = 0
    /\ frames = << >>
    /\ pending = "none"
    /\ result = "none"
    /\ created = {}
    /\ tool_failed = {}
    /\ failures = {}

\* subtitle_service.py:218-227: the input video is written to a temporary file
SubWriteVideo ==
    /\ op = "add_subtitles" /\ tool_pc = "start"
    /\ files' = files \cup { "video_path" }
    /\ created' = created \cup { "video_path" }
    /\ locals_' = locals_ \cup { "video_path" }
    /\ tool_pc' = IF srt_given THEN "write_srt" ELSE "extract_audio"
    /\ UNCHANGED << op, srt_given, duration, num_frames, timestamps, fi, frames,
                    pending, result, tool_failed, failures >>
    /\ UNCHANGED << procvars, capvars, srtvars, fmtvars, pubvars >>

\* subtitle_service.py:45-59: ffmpeg writes the audio file; a non-zero exit
\* raises, with or without a partial audio file left behind
SubExtractAudio ==
    /\ op = "add_subtitles" /\ tool_pc = "extract_audio"
    /\ \/ /\ files' = files \cup { "audio_path" }
          /\ created' = created \cup { "audio_path" }
          /\ tool_pc' = "transcribe"
          /\ UNCHANGED << tool_failed, failures >>
       \/ /\ \E partial \in BOOLEAN :
               /\ files' = IF partial THEN files \cup { "audio_path" } ELSE files
               /\ created' = IF partial THEN created \cup { "audio_path" } ELSE created
          /\ tool_failed' = tool_failed \cup { "extract_audio" }
          /\ failures' = failures \cup { << "tool", "exit" >> }
          /\ tool_pc' = "error_cleanup"
    /\ UNCHANGED << op, srt_given, locals_, duration, num_frames, timestamps, fi,
                    frames, pending, result >>
    /\ UNCHANGED << procvars, capvars, srtvars, fmtvars, pubvars >>

\* subtitle_service.py:64-70: the audio file is opened and sent to the
\* transcription provider; either can raise
SubTranscribe ==
    /\ op = "add_subtitles" /\ tool_pc = "transcribe"
    /\ \/ /\ tool_pc' = "remove_audio"
          /\ UNCHANGED failures
       \/ /\ \E f \in { "read", "provider" } : failures' = failures \cup { << f, "audio_path" >> }
          /\ tool_pc' = "error_cleanup"
    /\ UNCHANGED << op, srt_given, files, locals_, duration, num_frames, timestamps,
                    fi, frames, pending, result, created, tool_failed >>
    /\ UNCHANGED << procvars, capvars, srtvars, fmtvars, pubvars >>

\* subtitle_service.py:73-84: os.remove(audio_path) inside try/except: pass,
\* then the transcript is planned and returned
SubRemoveAudio ==
    /\ op = "add_subtitles" /\ tool_pc = "remove_audio"
    /\ \/ /\ files' = files \ { "audio_path" }
          /\ UNCHANGED failures
       \/ /\ failures' = failures \cup { << "remove", "audio_path" >> }
          /\ UNCHANGED files
    /\ tool_pc' = "write_srt"
    /\ UNCHANGED << op, srt_given, locals_, duration, num_frames, timestamps, fi,
                    frames, pending, result, created, tool_failed >>
    /\ UNCHANGED << procvars, capvars, srtvars, fmtvars, pubvars >>

\* subtitle_service.py:230-237: the subtitle file is written, output_path is set
SubWriteSrt ==
    /\ op = "add_subtitles" /\ tool_pc = "write_srt"
    /\ files' = files \cup { "srt_path" }
    /\ created' = created \cup { "srt_path" }
    /\ locals_' = locals_ \cup { "srt_path", "output_path" }
    /\ tool_pc' = "burn"
    /\ UNCHANGED << op, srt_given, duration, num_frames, timestamps, fi, frames,
                    pending, result, tool_failed, failures >>
    /\ UNCHANGED << procvars, capvars, srtvars, fmtvars, pubvars >>

\* subtitle_service.py:266-269: ffmpeg burns the subtitles; a non-zero exit
\* raises, with or without a partial output file left behind
SubBurn ==
    /\ op = "add_subtitles" /\ tool_pc = "burn"
    /\ \/ /\ files' = files \cup { "output_path" }
          /\ created' = created \cup { "output_path" }
          /\ tool_pc' = "read_output"
          /\ UNCHANGED << tool_failed, failures >>
       \/ /\ \E partial \in BOOLEAN :
               /\ files' = IF partial THEN files \cup { "output_path" } ELSE files
               /\ created' = IF partial THEN created \cup { "output_path" } ELSE created
          /\ tool_failed' = tool_failed \cup { "burn" }
          /\ failures' = failures \cup { << "tool", "exit" >> }
          /\ tool_pc' = "error_cleanup"
    /\ UNCHANGED << op, srt_given, locals_, duration, num_frames, timestamps, fi,
                    frames, pending, result >>
    /\ UNCHANGED << procvars, capvars, srtvars, fmtvars, pubvars >>

\* subtitle_service.py:274-275: the output video is read
SubReadOutput ==
    /\ op = "add_subtitles" /\ tool_pc = "read_output"
    /\ \/ /\ tool_pc' = "cleanup"
          /\ UNCHANGED failures
       \/ /\ failures' = failures \cup { << "read", "output_path" >> }
          /\ tool_pc' = "error_cleanup"
    /\ UNCHANGED << op, srt_given, files, locals_, duration, num_frames, timestamps,
                    fi, frames, pending, result, created, tool_failed >>
    /\ UNCHANGED << procvars, capvars, srtvars, fmtvars, pubvars >>

\* subtitle_service.py:280-289: three os.remove in one try; the first that
\* raises skips the ones after it; the video is returned
SubCleanup ==
    /\ op = "add_subtitles" /\ tool_pc = "cleanup"
    /\ LET paths == << "video_path", "srt_path", "output_path" >>
       IN  \E k \in 0..Len(paths) :
               /\ files' = files \ Removed(paths, k)
               /\ failures' = failures \cup FailedRemoval(paths, k)
    /\ result' = "returned"
    /\ tool_pc' = "done"
    /\ UNCHANGED << op, srt_given, locals_, duration, num_frames, timestamps, fi,
                    frames, pending, created, tool_failed >>
    /\ UNCHANGED << procvars, capvars, srtvars, fmtvars, pubvars >>

\* subtitle_service.py:291-303: the paths that are bound and exist are
\* removed in one try/except: pass, then the exception is raised again
SubErrorCleanup ==
    /\ op = "add_subtitles" /\ tool_pc = "error_cleanup"
    /\ LET paths == Guarded(<< "video_path", "srt_path", "output_path" >>, locals_)
       IN  \E k \in 0..Len(paths) :
               /\ files' = files \ Removed(paths, k)
               /\ failures' = failures \cup FailedRemoval(paths, k)
    /\ result' = "raised"
    /\ tool_pc' = "done"
    /\ UNCHANGED << op, srt_given, locals_, duration, num_frames, timestamps, fi,
                    frames, pending, created, tool_failed >>
    /\ UNCHANGED << procvars, capvars, srtvars, fmtvars, pubvars >>

\* uploadpost_service.py:31-35: the frame directory and the input video
FrCreate ==
    /\ op = "extract_frames" /\ tool_pc = "start"
    /\ files' = files \cup { "temp_dir", "temp_video" }
    /\ created' = created \cup { "temp_dir", "temp_video" }
    /\ locals_' = locals_ \cup { "temp_dir", "temp_video" }
    /\ tool_pc' = "probe"
    /\ UNCHANGED << op, srt_given, duration, num_frames, timestamps, fi, frames,
                    pending, result, tool_failed, failures >>
    /\ UNCHANGED << procvars, capvars, srtvars, fmtvars, pubvars >>

\* uploadpost_service.py:39-52: ffprobe reports the duration; any failure
\* of the probe is logged and the duration is taken to be 10.0
FrProbe ==
    /\ op = "extract_frames" /\ tool_pc = "probe"
    /\ \/ /\ duration' \in Durations
          /\ UNCHANGED << tool_failed, failures >>
       \/ /\ duration' = DefaultDuration
          /\ tool_failed' = tool_failed \cup { "ffprobe" }
          /\ failures' = failures \cup { << "tool", "exit" >> }
    /\ tool_pc' = "timestamps"
    /\ UNCHANGED << op, srt_given, files, locals_, num_frames, timestamps, fi,
                    frames, pending, result, created >>
    /\ UNCHANGED << procvars, capvars, srtvars, fmtvars, pubvars >>

\* uploadpost_service.py:54-62
FrTimestamps ==
    /\ op = "extract_frames" /\ tool_pc = "timestamps"
    /\ timestamps' = Timestamps(duration, num_frames)
    /\ fi' = 0
    /\ tool_pc' = "frame"
    /\ UNCHANGED << op, srt_given, files, locals_, duration, num_frames, frames,
                    pending, result, created, tool_failed, failures >>
    /\ UNCHANGED << procvars, capvars, srtvars, fmtvars, pubvars >>

\* uploadpost_service.py:64-90: one pass of the loop over the timestamps.
\* A non-zero exit or a timeout of ffmpeg is logged and the loop goes on; a
\* frame file that cannot be read raises out of the loop.
FrFrame ==
    /\ op = "extract_frames" /\ tool_pc = "frame"
    /\ \/ /\ frames' = Append(frames, fi)
          /\ tool_pc' = IF fi + 1 < num_frames THEN "frame" ELSE "finish"
          /\ UNCHANGED << tool_failed, failures, pending >>
       \/ /\ tool_failed' = tool_failed \cup { "ffmpeg" }
          /\ failures' = failures \cup { << "tool", "exit" >> }
          /\ tool_pc' = IF fi + 1 < num_frames THEN "frame" ELSE "finish"
          /\ UNCHANGED << frames, pending >>
       \/ /\ failures' = failures \cup { << "tool", "timeout" >> }
          /\ tool_pc' = IF fi + 1 < num_frames THEN "frame" ELSE "finish"
          /\ UNCHANGED << frames, tool_failed, pending >>
       \/ /\ failures' = failures \cup { << "read", "frame" >> }
          /\ pending' = "raised"
          /\ tool_pc' = "finally"
          /\ UNCHANGED << frames, tool_failed >>
    /\ fi' = fi + 1
    /\ UNCHANGED << op, srt_given, files, locals_, duration, num_frames, timestamps,
                    result, created >>
    /\ UNCHANGED << procvars, capvars, srtvars, fmtvars, pubvars >>

\* uploadpost_service.py:92-100: no frame at all raises, else frames is returned
FrFinish ==
    /\ op = "extract_frames" /\ tool_pc = "finish"
    /\ pending' = IF frames = << >> THEN "raised" ELSE "returned"
    /\ tool_pc' = "finally"
    /\ UNCHANGED << op, srt_given, files, locals_, duration, num_frames, timestamps,
                    fi, frames, result, created, tool_failed, failures >>
    /\ UNCHANGED << procvars, capvars, srtvars, fmtvars, pubvars >>

\* uploadpost_service.py:102-110: os.unlink(temp_video) and
\* shutil.rmtree(temp_dir) in one try; the first that raises skips the other
FrFinally ==
    /\ op = "extract_frames" /\ tool_pc = "finally"
    /\ LET paths == Guarded(<< "temp_video", "temp_dir" >>, locals_)
       IN  \E k \in 0..Len(paths) :
               /\ files' = files \ Removed(paths, k)
               /\ failures' = failures \cup FailedRemoval(paths, k)
    /\ result' = pending
    /\ tool_pc' = "done"
    /\ UNCHANGED << op, srt_given, locals_, duration, num_frames, timestamps, fi,
                    frames, pending, created, tool_failed >>
    /\ UNCHANGED << procvars, capvars, srtvars, fmtvars, pubvars >>

NextTools ==
    \/ SubWriteVideo \/ SubExtractAudio \/ SubTranscribe \/ SubRemoveAudio
    \/ SubWriteSrt \/ SubBurn \/ SubReadOutput \/ SubCleanup \/ SubErrorCleanup
    \/ FrCreate \/ FrProbe \/ FrTimestamps \/ FrFrame \/ FrFinish \/ FrFinally

SpecTools == InitTools /\ [][NextTools]_vars

\* C19: for every probed duration d > 0 the timestamps of num_frames > 1
\* frames are num_frames evenly spaced, strictly increasing times inside
\* [0.1 * d, 0.9 * d]; for num_frames = 1 the one timestamp is d / 2.
C19_TimestampsInMiddle ==
    timestamps # << >> =>
        LET n  == num_frames
            dn == TsDen(n)
        IN  IF n = 1 THEN timestamps = << 5 * duration >>
            ELSE /\ Len(timestamps) = n
                 /\ \A i \in 1..(n - 1) : timestamps[i] < timestamps[i + 1]
                 /\ \A i \in 1..(n - 2) :
                       timestamps[i + 1] - timestamps[i] = timestamps[i + 2] - timestamps[i + 1]
                 /\ \A i \in 1..n :
                       /\ duration * dn <= timestamps[i]
                       /\ timestamps[i] <= 9 * duration * dn

\* the call has returned or raised
CallOver == tool_pc = "done"

\* C18: when a compositor call returns or raises, every temporary file and
\* directory it created (input video, extracted audio, subtitle file,
\* output video, frame directory) has been deleted, whichever step failed;
\* when a deletion itself failed, only the file it was deleting is left.
C18_TempFilesDeleted ==
    CallOver => \A f \in files : << "remove", f >> \in failures

\* C20: a call in which an external tool ended with a non-zero exit raises
\* (it never returns a normal result), and extract_frames_from_video
\* returns exactly num_frames frames or raises.
C20_ToolFailureRaises ==
    CallOver =>
        /\ tool_failed # {} => result = "raised"
        /\ (op = "extract_frames" /\ result = "returned") => Len(frames) = num_frames

(***************************************************************************)
(* The publisher operations: UploadPostService.publish_photo,              *)
(* publish_carousel and publish_reel (uploadpost_service.py:112-167,       *)
(* 169-227, 275-330), from the arrival of the HTTP response to the return  *)
(* or raise.  A JSON object is a function from its keys to its values.     *)
(***************************************************************************)
\* the HTTP statuses tried
Statuses == { 200, 201, 204, 400, 500 }

\* the values tried for the keys 'error' and 'status' of a JSON object
JsonValues == { "", "error", "boom", "success" }

\* the JSON objects tried: any of the keys 'error' and 'status', any values
JsonDicts ==
    UNION { [ks -> JsonValues] : ks \in SUBSET { "error", "status" } }

\* the bodies tried: a JSON object, a JSON list, and a body for which
\* response.json() raises ContentTypeError or ValueError
Bodies ==
    { [kind |-> "dict", value |-> d] : d \in JsonDicts }
      \cup { [kind |-> k, value |-> EmptyDict] : k \in { "list", "ContentTypeError", "ValueError" } }

\* dict.get(key), None when the key is absent
Get(dict, key) == IF key \in DOMAIN dict THEN dict[key] ELSE None

\* the truth value Python gives to a value
Truthy(v) == v \notin { None, "" }

\* line 147 with `and` in place of `or`
IsErrorResult_Both(result_) ==
    /\ result_.kind = "dict"
    /\ Truthy(Get(result_.value, "error")) /\ Get(result_.value, "status") = "error"

\* lines 146-147: isinstance(result, dict) and
\* (result.get('error') or result.get('status') == 'error')
IsErrorResult(result_) ==
    /\ result_.kind = "dict"
    /\ Truthy(Get(result_.value, "error")) \/ Get(result_.value, "status") = "error"

\* line 161: the result made up for a 200/201 body that is not JSON; the
\* text of the body is stood for by the body's kind
Synthetic(b) ==
    [kind |-> "dict",
     value |-> [status |-> "success", message |-> "Published", response |-> b.kind]]

\* lines 138-163 (and 198-223, 301-326): << outcome, value returned >>
Respond(status, b) ==
    IF status \notin { 200, 201 } THEN << "raised", None >>
    ELSE IF b.kind \in { "ContentTypeError", "ValueError" }
    THEN IF status \in { 200, 201 } THEN << "returned", Synthetic(b) >>
         ELSE << "raised", None >>
    ELSE IF IsErrorResult(b) THEN << "raised", None >>
    ELSE << "returned", b >>

InitPub ==
    /\ InitProc
    /\ InitCaptionIdle
    /\ InitSrtIdle
    /\ InitFmtIdle
    /\ InitToolsIdle
    /\ pub_op \in { "publish_photo", "publish_carousel", "publish_reel" }
    /\ response_status \in Statuses
    /\ body \in Bodies
    /\ pub_result = None
    /\ pub_outcome = "none"

\* uploadpost_service.py:131-167
PublishPhoto ==
    /\ pub_op = "publish_photo" /\ pub_outcome = "none"
    /\ pub_outcome' = Respond(response_status, body)[1]
    /\ pub_result' = Respond(response_status, body)[2]
    /\ UNCHANGED << pub_op, response_status, body >>
    /\ UNCHANGED << procvars, capvars, srtvars, fmtvars, toolvars >>

\* uploadpost_service.py:191-227
PublishCarousel ==
    /\ pub_op = "publish_carousel" /\ pub_outcome = "none"
    /\ pub_outcome' = Respond(response_status, body)[1]
    /\ pub_result' = Respond(response_status, body)[2]
    /\ UNCHANGED << pub_op, response_status, body >>
    /\ UNCHANGED << procvars, capvars, srtvars, fmtvars, toolvars >>

\* uploadpost_service.py:294-330
PublishReel ==
    /\ pub_op = "publish_reel" /\ pub_outcome = "none"
    /\ pub_outcome' = Respond(response_status, body)[1]
    /\ pub_result' = Respond(response_status, body)[2]
    /\ UNCHANGED << pub_op, response_status, body >>
    /\ UNCHANGED << procvars, capvars, srtvars, fmtvars, toolvars >>

NextPub == PublishPhoto \/ PublishCarousel \/ PublishReel

SpecPub == InitPub /\ [][NextPub]_vars

\* the body is a JSON object with a truthy 'error' or with 'status' = 'error'
FlaggedBody ==
    /\ body.kind = "dict"
    /\ \/ "error" \in DOMAIN body.value /\ body.value["error"] # ""
       \/ "status" \in DOMAIN body.value /\ body.value["status"] = "error"

\* C21: each publisher operation raises when the HTTP status is not 200 or
\* 201 and when a 200/201 JSON body is an object flagged as an error; it
\* returns only for a 200/201 response whose body is not flagged, and then
\* returns the parsed body, or a made-up success result when the body is
\* not JSON.
C21_PublisherRaisesOnFailure ==
    pub_outcome # "none" =>
        /\ response_status \notin { 200, 201 } => pub_outcome = "raised"
        /\ (response_status \in { 200, 201 } /\ FlaggedBody) => pub_outcome = "raised"
        /\ pub_outcome = "returned" <=> (response_status \in { 200, 201 } /\ ~FlaggedBody)
        /\ pub_outcome = "returned" =>
              pub_result = IF body.kind \in { "dict", "list" } THEN body ELSE Synthetic(body)

\* a 201 response with a JSON object that carries an empty 'error' and a
\* 'status' other than 'error' was returned as the result
C21_Witness ==
    /\ pub_outcome = "returned"
    /\ response_status = 201
    /\ body.kind = "dict"
    /\ DOMAIN body.value = { "error", "status" }
    /\ body.value["error"] = ""
    /\ pub_result = body

(***************************************************************************)
(* Message routing and failure handling: properties                        *)
(***************************************************************************)
\* the publisher operation a message is meant for: the carousel for a
\* message with a media group id, else the photo for a photo with a caption,
\* else the reel for a video with a caption, else none
OpOf(m) ==
    IF m.group # NoGroup THEN "carousel"
    ELSE IF m.caption = EmptyCaption THEN "none"
    ELSE IF m.photo THEN "photo"
    ELSE IF m.video THEN "reel"
    ELSE "none"

\* where a message of each kind is right after process_message took it
EntryOf(m) ==
    CASE OpOf(m) = "carousel" -> { "c_download", "failed" }
      [] OpOf(m) = "photo"    -> { "p_download" }
      [] OpOf(m) = "reel"     -> { "v_download" }
      [] OTHER                -> { "done" }

\* C22: process_message puts each message on exactly one route: a message
\* with a media group id goes to the carousel aggregator whatever else it
\* carries; otherwise a photo with a caption goes to the photo path,
\* otherwise a video with a caption to the video path; any other message is
\* finished at once, and no publisher call is ever made for a message other
\* than the call of its route.
C22_OneRoutePerMessage ==
    [][ /\ \A t \in Tasks :
              (pc[t] = "new" /\ pc'[t] # "new") =>
                  /\ pc'[t] \in EntryOf(msg'[t])
                  /\ msg'[t].group # NoGroup => msg'[t].group \in DOMAIN carousel_groups'
                  /\ msg'[t].group = NoGroup =>
                        UNCHANGED << carousel_groups, carousel_captions >>
        /\ \A c \in calls' : c.op = OpOf(msg'[c.by]) ]_vars

\* a grouped video with a caption and a grouped photo without caption went
\* to the aggregator, and a lone photo without caption was finished at once
C22_Witness ==
    \E t, u, v \in Tasks :
        /\ msg[t].group # NoGroup /\ msg[t].video /\ msg[t].caption # EmptyCaption
        /\ pc[t] = "failed"
        /\ msg[u].group # NoGroup /\ msg[u].photo /\ msg[u].caption = EmptyCaption
        /\ pc[u] = "c_sleep"
        /\ msg[v].group = NoGroup /\ msg[v].photo /\ msg[v].caption = EmptyCaption
        /\ pc[v] = "done"
        /\ \A c \in calls : c.by # v

(***************************************************************************)
(* The subtitle planner: words, syllables and coverage of a segment        *)
(***************************************************************************)
\* the cues cut from segment s, in output order
CuesOf(s) == SelectSeq(cues, LAMBDA c : c.seg = s)

\* the words of a cue, as written (upper case)
CueWords(cue) == Split(cue.text)

\* the words of all cues of a sequence, one after the other
RECURSIVE ConcatWords(_)
ConcatWords(cs) ==
    IF cs = << >> THEN << >> ELSE CueWords(Head(cs)) \o ConcatWords(Tail(cs))

\* word.upper() for every word of a list
UpperWords(ws) ==
    [k \in 1..Len(ws) |-> [j \in 1..Len(ws[k]) |-> ToUpper(ws[k][j])]]

\* C23: inside one segment the cues partition the segment's words: every
\* cue holds 1 or 2 consecutive words, every word is in exactly one cue in
\* the original order, and a word longer than 7 characters that starts a
\* cue is alone in it, as is the last word of the segment when it starts a
\* cue.
C23_CuesPartitionWords ==
    srt_pc = "done" =>
        \A s \in 1..Len(transcript) :
            LET cs == CuesOf(s)
                ws == UpperWords(Split(transcript[s].text))
            IN  /\ ConcatWords(cs) = ws
                /\ \A k \in 1..Len(cs) :
                      /\ Len(CueWords(cs[k])) \in { 1, 2 }
                      /\ Len(CueWords(cs[k])[1]) > 7 => Len(CueWords(cs[k])) = 1
                /\ cs # << >> =>
                      (CueWords(cs[Len(cs)])[1] = ws[Len(ws)]
                           => Len(CueWords(cs[Len(cs)])) = 1)

\* a segment of five words starting with a long one was cut into cues of
\* 1, 2 and 2 words, and another cue holds a long word in second place
C23_Witness ==
    /\ srt_pc = "done"
    /\ \E s \in 1..Len(transcript) :
          /\ Len(CuesOf(s)) = 3
          /\ Len(CueWords(CuesOf(s)[1])) = 1
          /\ Len(CueWords(CuesOf(s)[1])[1]) > 7
          /\ Len(CueWords(CuesOf(s)[2])) = 2
          /\ Len(CueWords(CuesOf(s)[3])) = 2
    /\ \E k \in 1..Len(cues) :
          Len(CueWords(cues[k])) = 2 /\ Len(CueWords(cues[k])[2]) > 7

\* the places of a word where a vowel follows a non-vowel or starts the word
VowelStarts(word) ==
    { i \in 1..Len(word) :
        /\ ToLower(word[i]) \in Vowels
        /\ (i = 1 \/ ToLower(word[i - 1]) \notin Vowels) }

\* the number of such places, and 1 for a word without any
SyllablesByRuns(word) ==
    IF VowelStarts(word) = { } THEN 1 ELSE Cardinality(VowelStarts(word))

RECURSIVE SumByRuns(_)
SumByRuns(ws) ==
    IF ws = << >> THEN 0 ELSE SyllablesByRuns(Head(ws)) + SumByRuns(Tail(ws))

\* where the share of the k-th cue of a segment begins: the segment's start
\* for the first cue, the end of the cue before it otherwise
ShareStart(s, cs, k) ==
    IF k = 1 THEN transcript[s].start * cs[k].den ELSE cs[k - 1].end

C28_SegmentCovered ==
    srt_pc = "done" =>
        \A s \in 1..Len(transcript) :
            LET cs == CuesOf(s)
                sg == transcript[s]
            IN  (Split(sg.text) # << >> /\ sg.end > sg.start) =>
                    /\ cs # << >>
                    /\ cs[1].start = sg.start * cs[1].den
                    /\ \A k \in 2..Len(cs) :
                          /\ cs[k].start = Max(sg.start * cs[k].den,
                                               cs[k - 1].end - OverlapMs * cs[k].den)
                          /\ cs[k].start <= cs[k - 1].end
                          /\ cs[k].end > cs[k - 1].end
                    /\ cs[Len(cs)].end = sg.end * cs[Len(cs)].den

\* one segment whose second cue was held at the segment's start and another
\* whose later cues start 50 ms before the end of the cue before them
C28_Witness ==
    /\ srt_pc = "done"
    /\ \E s \in 1..Len(transcript) :
          LET cs == CuesOf(s)
          IN  /\ transcript[s].end > transcript[s].start
              /\ Len(cs) >= 2
              /\ cs[2].start = transcript[s].start * cs[2].den
              /\ cs[1].end - OverlapMs * cs[1].den < cs[2].start
    /\ \E s \in 1..Len(transcript) :
          LET cs == CuesOf(s)
          IN  /\ Len(cs) = 3
              /\ cs[2].start = cs[1].end - OverlapMs * cs[2].den
              /\ cs[3].start = cs[2].end - OverlapMs * cs[3].den
              /\ cs[3].start > cs[2].start
              /\ cs[3].end = transcript[s].end * cs[3].den

\* C25: when the wait of an arrival ends after its group was flushed and
\* removed by another arrival's wait, the handler finishes without raising
\* an error and without calling the publisher.
C25_LateWakeIsNoOp ==
    [][ \A t \in Tasks :
            ( /\ pc[t] = "c_sleep" /\ pc'[t] # "c_sleep"
              /\ msg[t].group \in flushed
              /\ msg[t].group \notin DOMAIN carousel_groups )
            => (pc'[t] = "done" /\ calls' = calls) ]_vars

\* the step in which the translation or the publisher call of the carousel
\* of task t raises
AttemptFails(t) ==
    /\ pc[t] \in { "c_translate", "c_publish" }
    /\ pc'[t] # pc[t]
    /\ t \in provFail'

\* C26: when translating or publishing a carousel fails, publish_carousel
\* leaves the registry as it is: the failing step changes neither registry
\* nor any item list, and (no other handler having flushed the group) the
\* list and the caption read at the start of the attempt are still the
\* group's entries; an entry is removed only in the step in which a
\* publisher call for its group returned successfully.
C26_FailureKeepsRegistry ==
    [][ /\ \A t \in Tasks :
              AttemptFails(t) =>
                  /\ UNCHANGED << carousel_groups, carousel_captions, lists >>
                  /\ pc'[t] = "failed"
                  /\ msg[t].group \notin flushed =>
                        /\ msg[t].group \in DOMAIN carousel_groups'
                        /\ msg[t].group \in DOMAIN carousel_captions'
                        /\ carousel_groups'[msg[t].group] = images[t]
                        /\ carousel_captions'[msg[t].group] = caption[t]
        /\ \A g \in (DOMAIN carousel_groups \ DOMAIN carousel_groups')
                        \cup (DOMAIN carousel_captions \ DOMAIN carousel_captions') :
              \E t \in Tasks :
                  /\ msg[t].group = g
                  /\ pc[t] = "c_publish" /\ pc'[t] = "done"
                  /\ \E c \in calls : c.by = t /\ c.op = "carousel" ]_vars

\* the publisher call of a woken task raised and the group's list, with the
\* task's item, and its caption are still registered
C26_Witness ==
    \E t \in Tasks :
        /\ pc[t] = "failed" /\ t \in provFail /\ t \in woken
        /\ \E c \in calls : c.by = t
        /\ msg[t].group \in DOMAIN carousel_groups
        /\ carousel_groups[msg[t].group] = images[t]
        /\ lists[images[t]] # << >>
        /\ carousel_captions[msg[t].group] = caption[t]
        /\ caption[t] # EmptyCaption

\* C27: wherever a task can be suspended the item registry and the caption
\* registry hold the same group ids, after any interleaving of arrivals,
\* flushes and failures.
C27_SameGroupIds == DOMAIN carousel_groups = DOMAIN carousel_captions

\* a group that was flushed, started again by a later arrival without
\* caption and whose next attempt failed is in both registries
C27_Witness ==
    /\ flushed # { }
    /\ \E t \in Tasks :
          /\ pc[t] = "failed" /\ t \in provFail /\ t \in woken
          /\ msg[t].group \in flushed
          /\ msg[t].group \in DOMAIN carousel_groups
          /\ msg[t].group \in DOMAIN carousel_captions
          /\ carousel_captions[msg[t].group] = EmptyCaption

\* the task can take a step of its own now: it is not finished, not behind
\* an earlier message still to arrive and not behind an earlier sleeper
Runnable(t) ==
    /\ pc[t] \in Active \cup { "new" }
    /\ pc[t] = "new" => \A u \in Tasks : u < t => pc[u] # "new"
    /\ pc[t] = "c_sleep" => Head(sleepers) = t

\* the steps of task t
TaskStep(t) ==
    \/ Arrive(t)
    \/ CarouselDownloaded(t)
    \/ Wake(t)
    \/ CarouselTranslated(t)
    \/ CarouselPublished(t)
    \/ PhotoStep(t)
    \/ VideoStep(t)

\* C29: process_message never raises to its caller: every exception raised
\* while one message is processed (photo, video or carousel path, a late
\* wake-up included) is caught and logged, and the failure of one item does
\* not stop the other items, in flight or later: each of them can still take
\* its next step.
C29_ProcessMessageNeverRaises ==
    /\ \A t \in Tasks : pc[t] \in Active \cup { "new", "done", "failed" }
    /\ \A t \in Tasks : Runnable(t) => ENABLED TaskStep(t)

\* a carousel task woke up late and failed on the missing entry, and a
\* lone photo that arrived after it was published
C29_Witness ==
    \E t, v \in Tasks :
        /\ pc[t] = "failed" /\ t \in woken /\ t \notin provFail /\ images[t] = 0
        /\ t < v
        /\ pc[v] = "done" /\ msg[v].group = NoGroup
        /\ \E c \in calls : c.by = v

====
